---- MODULE Spec2Model ----
(***************************************************************************)
(* A model of prime11.c: a Mersenne-prime search in which one generator    *)
(* (main) feeds candidate exponents through a bounded circular queue       *)
(* (TaskQueue: mutex + two counting semaphores) to a pool of worker        *)
(* threads, each of which runs lucas_lehmer on the exponent it dequeued.   *)
(*                                                                         *)
(* Two specifications share the module:                                    *)
(*   Spec    the threads: main's generator loop, enqueue, dequeue and      *)
(*           worker_thread, one action per statement of the queue code;    *)
(*   SpecLL  one call of lucas_lehmer, one action per stage / loop turn.   *)
(*                                                                         *)
(* unsigned long is modelled at a reduced width w (a state variable drawn  *)
(* from Widths): every unsigned long operation is taken modulo 2^w.  GMP   *)
(* integers (mpz_t) are exact: sign and magnitude, the magnitude a         *)
(* little-endian sequence of limbs.                                        *)
(***************************************************************************)
EXTENDS Integers, Sequences, FiniteSets, Bags, TLC

(***************************************************************************)
(* Bounds of the model.                                                    *)
(***************************************************************************)
\* Largest exponent handed to lucas_lehmer in SpecLL.
MaxP == 127

\* Widths of unsigned long that are modelled.  Both are even, as 32 and 64
\* are, so that ULONG_MAX = 2^w - 1 is a multiple of 3.
Widths == {6, 16}

(***************************************************************************)
(* unsigned long arithmetic (limits.h: ULONG_MAX).                         *)
(***************************************************************************)
ULONG_MAX(wd) == 2^wd - 1

\* a * b, a + b and a + 1 in unsigned long.
UMul(a, b, wd) == (a * b) % (2^wd)
UAdd(a, b, wd) == (a + b) % (2^wd)

(***************************************************************************)
(* GMP: magnitudes.  A magnitude is a sequence of limbs, least significant *)
(* first, without leading zero limbs; <<>> is 0.                           *)
(***************************************************************************)
LimbBits == 10
Base == 2^LimbBits

Limb(m, i) == IF i \in 1..Len(m) THEN m[i] ELSE 0

RECURSIVE Norm(_)
Norm(m) ==
  IF m = <<>> THEN m
  ELSE IF m[Len(m)] = 0 THEN Norm(SubSeq(m, 1, Len(m) - 1))
  ELSE m

RECURSIVE MagOfNat(_)
MagOfNat(n) == IF n = 0 THEN <<>> ELSE <<n % Base>> \o MagOfNat(n \div Base)

RECURSIVE NatOfMag(_)
NatOfMag(m) == IF m = <<>> THEN 0 ELSE m[1] + Base * NatOfMag(Tail(m))

RECURSIVE MagCmpFrom(_, _, _)
MagCmpFrom(a, b, i) ==
  IF i = 0 THEN 0
  ELSE IF a[i] > b[i] THEN 1
  ELSE IF a[i] < b[i] THEN -1
  ELSE MagCmpFrom(a, b, i - 1)

MagCmp(a, b) ==
  IF Len(a) > Len(b) THEN 1
  ELSE IF Len(a) < Len(b) THEN -1
  ELSE MagCmpFrom(a, b, Len(a))

RECURSIVE AddFrom(_, _, _, _)
AddFrom(a, b, i, c) ==
  IF i > Len(a) /\ i > Len(b) THEN (IF c = 0 THEN <<>> ELSE <<c>>)
  ELSE LET s == Limb(a, i) + Limb(b, i) + c
       IN  <<s % Base>> \o AddFrom(a, b, i + 1, s \div Base)

MagAdd(a, b) == AddFrom(a, b, 1, 0)

RECURSIVE SubFrom(_, _, _, _)
SubFrom(a, b, i, br) ==
  IF i > Len(a) THEN <<>>
  ELSE LET s == a[i] - Limb(b, i) - br
       IN  <<(s + Base) % Base>> \o SubFrom(a, b, i + 1, IF s < 0 THEN 1 ELSE 0)

\* a - b for a >= b.
MagSub(a, b) == Norm(SubFrom(a, b, 1, 0))

RECURSIVE ColSum(_, _, _, _)
ColSum(a, b, c, i) ==
  IF i > Len(a) THEN 0
  ELSE (IF c + 1 - i \in 1..Len(b) THEN a[i] * b[c + 1 - i] ELSE 0)
       + ColSum(a, b, c, i + 1)

RECURSIVE MulFrom(_, _, _, _)
MulFrom(a, b, c, carry) ==
  IF c > Len(a) + Len(b) THEN <<>>
  ELSE LET s == ColSum(a, b, c, 1) + carry
       IN  <<s % Base>> \o MulFrom(a, b, c + 1, s \div Base)

MagMul(a, b) == Norm(MulFrom(a, b, 1, 0))

\* The low n bits of m, and m shifted right by n bits.
MagMod2exp(m, n) ==
  LET full == n \div LimbBits
      r    == n % LimbBits
  IN  Norm([i \in 1..(full + 1) |->
              IF i <= full THEN Limb(m, i) ELSE Limb(m, i) % (2^r)])

MagDiv2exp(m, n) ==
  LET full == n \div LimbBits
      r    == n % LimbBits
      len  == IF Len(m) > full THEN Len(m) - full ELSE 0
  IN  Norm([i \in 1..len |->
              (Limb(m, i + full) \div (2^r))
              + (Limb(m, i + full + 1) % (2^r)) * (2^(LimbBits - r))])

\* 2^n.
MagBit(n) ==
  LET full == n \div LimbBits
      r    == n % LimbBits
  IN  [i \in 1..(full + 1) |-> IF i = full + 1 THEN 2^r ELSE 0]

RECURSIVE ModFrom(_, _, _, _)
ModFrom(m, i, r, d) ==
  IF i = 0 THEN r ELSE ModFrom(m, i - 1, (r * Base + m[i]) % d, d)

\* m mod d for a single-word d > 0.
MagModSmall(m, d) == ModFrom(m, Len(m), 0, d)

(***************************************************************************)
(* GMP: the mpz functions lucas_lehmer calls.  An mpz value is a record    *)
(* [neg, mag]; zero is never negative.                                     *)
(***************************************************************************)
MkZ(neg, mag) == [neg |-> neg /\ mag # <<>>, mag |-> mag]

mpz_ui(n) == MkZ(FALSE, MagOfNat(n))

mpz_sgn(a) == IF a.mag = <<>> THEN 0 ELSE IF a.neg THEN -1 ELSE 1

mpz_addz(a, b) ==
  IF a.neg = b.neg THEN MkZ(a.neg, MagAdd(a.mag, b.mag))
  ELSE LET c == MagCmp(a.mag, b.mag)
       IN  IF c = 0 THEN MkZ(FALSE, <<>>)
           ELSE IF c > 0 THEN MkZ(a.neg, MagSub(a.mag, b.mag))
           ELSE MkZ(b.neg, MagSub(b.mag, a.mag))

mpz_add(a, b) == mpz_addz(a, b)

mpz_sub(a, b) == mpz_addz(a, MkZ(~b.neg, b.mag))

mpz_add_ui(a, u) == mpz_addz(a, mpz_ui(u))

mpz_sub_ui(a, u) == mpz_sub(a, mpz_ui(u))

mpz_mul(a, b) == MkZ(a.neg # b.neg, MagMul(a.mag, b.mag))

mpz_mul_ui(a, u) == mpz_mul(a, mpz_ui(u))

mpz_cmp(a, b) == mpz_sgn(mpz_sub(a, b))

\* mpz_setbit on a freshly initialised (zero) integer.
mpz_setbit(a, n) == mpz_addz(a, MkZ(FALSE, MagBit(n)))

\* Truncating division by 2^n: the remainder keeps the dividend's sign.
mpz_tdiv_r_2exp(a, n) == MkZ(a.neg, MagMod2exp(a.mag, n))

mpz_tdiv_q_2exp(a, n) == MkZ(a.neg, MagDiv2exp(a.mag, n))

\* d is an unsigned long; GMP defines divisibility by 0 as "a = 0".
mpz_divisible_ui_p(a, d) ==
  IF d = 0 THEN a.mag = <<>> ELSE MagModSmall(a.mag, d) = 0

\* Here the divisor t = 2p+1 always fits one machine word plus one bit.
mpz_divisible_p(a, d) == mpz_divisible_ui_p(a, NatOfMag(d.mag))

RECURSIVE NoDivisorFrom(_, _)
NoDivisorFrom(n, d) ==
  IF d * d > n THEN TRUE
  ELSE IF n % d = 0 THEN FALSE
  ELSE NoDivisorFrom(n, d + 1)

\* mpz_probab_prime_p(t, 25): nonzero exactly for the primes (the arguments
\* are single words, where the test is exact).
mpz_probab_prime_p(a) ==
  LET n == NatOfMag(a.mag) IN n >= 2 /\ NoDivisorFrom(n, 2)

(***************************************************************************)
(* lucas_lehmer, stage by stage (prime11.c lines 77-134).                  *)
(***************************************************************************)
\* Lines 91-93: mp = 2^p - 1.
Mersenne(p) == mpz_sub_ui(mpz_setbit(mpz_ui(0), p), 1)

\* Line 86: the exponent filter.
ExponentIsPrime(p) == mpz_probab_prime_p(mpz_ui(p))

\* Lines 97-98: t = 2*t + 1, computed in GMP (no wrap-around).
SpecialT(p) == mpz_add_ui(mpz_mul_ui(mpz_ui(p), 2), 1)

\* Lines 96-99: the special factor 2p+1 applies and divides 2^p - 1.
SpecialFactorHit(p) ==
  /\ p > 3
  /\ p % 4 = 3
  /\ mpz_probab_prime_p(SpecialT(p))
  /\ mpz_divisible_p(Mersenne(p), SpecialT(p))

\* Line 107: tlim = p/2 > ULONG_MAX/(2*p) ? ULONG_MAX/(2*p) : p/2, where
\* 2*p is an unsigned long product.
TwoP(p, wd) == UMul(2, p, wd)

\* A bound one turn longer than that of line 107.
TrialLimit_Plus(p, wd) ==
  LET lim == ULONG_MAX(wd) \div TwoP(p, wd)
  IN  (IF p \div 2 > lim THEN lim ELSE p \div 2) + 1

TrialLimit(p, wd) ==
  LET lim == ULONG_MAX(wd) \div TwoP(p, wd)
  IN  IF p \div 2 > lim THEN lim ELSE p \div 2

\* Line 109: q = 2 * p * k + 1 in unsigned long, evaluated left to right.
TrialQ(p, k, wd) == UAdd(UMul(TwoP(p, wd), k, wd), 1, wd)

\* Line 110 with the test q % 8 == 7 left out.
TrialDivides_Only1(q, mpv) ==
  /\ q % 8 = 1
  /\ q % 3 # 0
  /\ q % 5 # 0
  /\ q % 7 # 0
  /\ mpz_divisible_ui_p(mpv, q)

\* Line 110: the filters on q and the divisibility test.
TrialDivides(q, mpv) ==
  /\ q % 8 \in {1, 7}
  /\ q % 3 # 0
  /\ q % 5 # 0
  /\ q % 7 # 0
  /\ mpz_divisible_ui_p(mpv, q)

TrialHit(p, k, wd) == TrialDivides(TrialQ(p, k, wd), Mersenne(p))

(***************************************************************************)
(* Line 117 clears t, and lines 125 and 127 use it again: t is a dangling   *)
(* mpz_t there.  What the build does with it is one of:                     *)
(*   "asif"   the freed limbs stay intact: as if t were still initialised;  *)
(*   "alias"  the freed limbs were handed to V by mpz_init_set_ui (line     *)
(*            121): t and V are one integer, a store to either is a store   *)
(*            to both;                                                      *)
(*   "abort"  the allocator detects the use of the freed block and aborts   *)
(*            the process.                                                  *)
(***************************************************************************)
UBOutcomes == {"asif", "alias", "abort"}

\* Lines 123-124: V = V*V - 2.
LLSquare(V) == mpz_sub_ui(mpz_mul(V, V), 2)

\* Lines 125-127 on sq = V*V - 2: t = sq mod 2^p; V = sq div 2^p; V = V + t.
\* Under "alias" line 125 stores the remainder into V as well, and line 126
\* stores the quotient into t as well.
LLFold(sq, p, ub) ==
  LET r  == mpz_tdiv_r_2exp(sq, p)
      qv == mpz_tdiv_q_2exp(IF ub = "alias" THEN r ELSE sq, p)
      tv == IF ub = "alias" THEN qv ELSE r
  IN  mpz_add(qv, tv)

\* Lines 123-127: one turn of the Lucas-Lehmer loop, before the reduction.
LLBody(V, p, ub) == LLFold(LLSquare(V), p, ub)

\* Line 128: while (V >= mp) V -= mp.
RECURSIVE LLReduce(_, _)
LLReduce(V, mp) ==
  IF mpz_cmp(V, mp) >= 0 THEN LLReduce(mpz_sub(V, mp), mp) ELSE V

\* Lines 122-129: the loop from k up to p.
RECURSIVE LLLoop(_, _, _, _, _)
LLLoop(V, k, p, mp, ub) ==
  IF k <= p /\ V.mag \in Seq(Nat)
  THEN LLLoop(LLReduce(LLBody(V, p, ub), mp), k + 1, p, mp, ub)
  ELSE V

\* Lines 120-133: stage 5, when it returns: !mpz_sgn(V).
LLStage(p, ub) ==
  IF mpz_sgn(LLLoop(mpz_ui(4), 3, p, Mersenne(p), ub)) = 0 THEN 1 ELSE 0

\* The stage at which lucas_lehmer(p) leaves the filters: 1..5.
StageOf(p, wd) ==
  IF p = 2 THEN 1
  ELSE IF ~ExponentIsPrime(p) THEN 2
  ELSE IF SpecialFactorHit(p) THEN 3
  ELSE IF \E k \in 1..(TrialLimit(p, wd) - 1) : TrialHit(p, k, wd) THEN 4
  ELSE 5

\* The call lucas_lehmer(p) does not return: the process aborts at line 125.
\* (Stage 5 is entered only with p >= 3, so the loop body runs.)
lucas_lehmer_aborts(p, wd, ub) == StageOf(p, wd) = 5 /\ ub = "abort"

\* The value lucas_lehmer(p) returns, when it returns (ub # "abort" in stage 5).
lucas_lehmer(p, wd, ub) ==
  LET st == StageOf(p, wd)
  IN  IF st = 1 THEN 1
      ELSE IF st \in {2, 3, 4} THEN 0
      ELSE LLStage(p, ub)

(***************************************************************************)
(* The threads: main (thread 0) and the workers 1..NWorkers.               *)
(***************************************************************************)
\* init_queue(&queue, 100) at a reduced capacity, MAX_THREADS at a reduced
\* pool size, and the number of candidates main enqueues before the model
\* stops it.
Cap == 2
NWorkers == 2
MaxItems == 4

Main == 0
Workers == 1..NWorkers

VARIABLES
  w,          \* the width of unsigned long
  argv,       \* main's argument
  start,      \* main: start (line 152)
  tasks,      \* queue.tasks: slot index -> ThreadData; unwritten slots absent
  head, tail, count,
  mutex,      \* queue.mutex: the set of threads holding it
  sem_empty, sem_full,
  gpc, gi, gdata, created,     \* main: position, loop variable i, data
  wpc, wdata,                  \* workers: position, dequeue's local data
  enq,        \* history: the exponents stored into the buffer, in order
  deq,        \* history: the loads from the buffer, [p, by], in order
  out,        \* the verdict lines logged: a bag of <<exponent, verdict>>
  aborted,    \* the process was aborted
  p, lpc, k, tlim, q, V, t, mp, \* one call of lucas_lehmer: its locals
  live,       \* the mpz_t locals that are initialised and not cleared
  res, ub, retline, required

qvars == <<tasks, head, tail, count, mutex, sem_empty, sem_full>>
mvars == <<gpc, gi, gdata, created>>
tvars == <<w, argv, start, qvars, mvars, wpc, wdata, enq, deq, out, aborted>>
llvars == <<p, lpc, k, tlim, q, V, t, mp, live, res, ub, retline, required>>
vars == <<tvars, llvars>>

\* Line 152: argv[1] is absent, a decimal number, or text strtoul cannot parse.
ArgAbsent == [kind |-> "absent", val |-> 0]
ArgJunk == [kind |-> "junk", val |-> 0]
ArgDigits(n) == [kind |-> "digits", val |-> n]

\* strtoul(argv[1], 0, 10): 0 when nothing parses, ULONG_MAX when out of range.
strtoul(a, wd) ==
  IF a.kind = "digits"
  THEN (IF a.val > ULONG_MAX(wd) THEN ULONG_MAX(wd) ELSE a.val)
  ELSE 0

\* A start that defaults to 0.
StartOfZero(a, wd) == IF a.kind = "absent" THEN 0 ELSE strtoul(a, wd)

\* Line 152: start = (argc >= 2) ? strtoul(argv[1], 0, 10) : 1.
StartOf(a, wd) == IF a.kind = "absent" THEN 1 ELSE strtoul(a, wd)

\* The arguments tried: none, unparsable, 2, and two below ULONG_MAX.
ArgVs(wd) == {ArgAbsent, ArgJunk, ArgDigits(2), ArgDigits(ULONG_MAX(wd) - 1)}

\* init_queue with one free slot too many, and with one occupied slot that
\* was never written.
init_queue_extra(max_tasks) ==
  [head |-> 0, tail |-> 0, count |-> 0,
   sem_empty |-> max_tasks + 1, sem_full |-> 0]

init_queue_occupied(max_tasks) ==
  [head |-> 0, tail |-> 0, count |-> 0,
   sem_empty |-> max_tasks, sem_full |-> 1]

\* init_queue (lines 44-53).
init_queue(max_tasks) ==
  [head |-> 0, tail |-> 0, count |-> 0,
   sem_empty |-> max_tasks, sem_full |-> 0]

max_tasks == Cap

\* The index after i in the circular buffer (lines 59 and 69), and the same
\* without the wrap-around.
NextIndexNoWrap(i) == i + 1

NextIndex(i) == (i + 1) % max_tasks

\* A lock that does not wait for the holder.
pthread_mutex_lock_nowait(self) == mutex' = mutex \cup {self}

\* pthread_mutex_lock: waits until no thread holds the mutex.
pthread_mutex_lock(self) == mutex = {} /\ mutex' = mutex \cup {self}

pthread_mutex_unlock(self) == mutex' = mutex \ {self}

\* A semaphore wait that does not block at zero.
sem_trywait(s) == TRUE

\* sem_wait proceeds (and decrements) only at a positive value.
sem_wait(s) == s > 0

sem_post(s) == s + 1

\* What a load of slot i yields: the stored value, or, for a slot never
\* written (malloc'ed memory), anything.
SlotValues(i) ==
  IF i \in DOMAIN tasks THEN {tasks[i]}
  ELSE {[p |-> 0], [p |-> ULONG_MAX(w)]}

Store(i, data) ==
  [j \in (DOMAIN tasks) \cup {i} |-> IF j = i THEN data ELSE tasks[j]]

(***************************************************************************)
(* main (lines 151-165).                                                   *)
(***************************************************************************)
\* Lines 158-160: pthread_create, one worker per step.
Main_Create ==
  /\ ~aborted /\ gpc = "create"
  /\ created' = created + 1
  /\ wpc' = [wpc EXCEPT ![created + 1] = "d_wait"]
  /\ gpc' = IF created + 1 = NWorkers THEN "loop" ELSE "create"
  /\ UNCHANGED <<w, argv, start, qvars, gi, gdata, wdata, enq, deq, out,
                 aborted, llvars>>

\* Lines 162-164: data = { .p = i }; call enqueue.
Main_Loop ==
  /\ ~aborted /\ gpc = "loop"
  /\ Len(enq) < MaxItems
  /\ gdata' = [p |-> gi]
  /\ gpc' = "e_wait"
  /\ UNCHANGED <<w, argv, start, qvars, gi, created, wpc, wdata, enq, deq,
                 out, aborted, llvars>>

(***************************************************************************)
(* enqueue (lines 55-63), called by main.                                  *)
(***************************************************************************)
Enq_Wait ==
  /\ ~aborted /\ gpc = "e_wait"
  /\ sem_wait(sem_empty)
  /\ sem_empty' = sem_empty - 1
  /\ gpc' = "e_lock"
  /\ UNCHANGED <<w, argv, start, tasks, head, tail, count, mutex, sem_full,
                 gi, gdata, created, wpc, wdata, enq, deq, out, aborted, llvars>>

\* enqueue without line 57.
Enq_Lock_Skipped ==
  /\ ~aborted /\ gpc = "e_lock"
  /\ gpc' = "e_store"
  /\ UNCHANGED <<w, argv, start, qvars, gi, gdata, created, wpc, wdata, enq,
                 deq, out, aborted, llvars>>

Enq_Lock ==
  /\ ~aborted /\ gpc = "e_lock"
  /\ pthread_mutex_lock(Main)
  /\ gpc' = "e_store"
  /\ UNCHANGED <<w, argv, start, tasks, head, tail, count, sem_empty, sem_full,
                 gi, gdata, created, wpc, wdata, enq, deq, out, aborted, llvars>>

Enq_Store ==
  /\ ~aborted /\ gpc = "e_store"
  /\ tasks' = Store(tail, gdata)
  /\ enq' = Append(enq, gdata.p)
  /\ gpc' = "e_tail"
  /\ UNCHANGED <<w, argv, start, head, tail, count, mutex, sem_empty, sem_full,
                 gi, gdata, created, wpc, wdata, deq, out, aborted, llvars>>

Enq_Tail ==
  /\ ~aborted /\ gpc = "e_tail"
  /\ tail' = NextIndex(tail)
  /\ gpc' = "e_count"
  /\ UNCHANGED <<w, argv, start, tasks, head, count, mutex, sem_empty, sem_full,
                 gi, gdata, created, wpc, wdata, enq, deq, out, aborted, llvars>>

Enq_Count ==
  /\ ~aborted /\ gpc = "e_count"
  /\ count' = count + 1
  /\ gpc' = "e_unlock"
  /\ UNCHANGED <<w, argv, start, tasks, head, tail, mutex, sem_empty, sem_full,
                 gi, gdata, created, wpc, wdata, enq, deq, out, aborted, llvars>>

Enq_Unlock ==
  /\ ~aborted /\ gpc = "e_unlock"
  /\ pthread_mutex_unlock(Main)
  /\ gpc' = "e_post"
  /\ UNCHANGED <<w, argv, start, tasks, head, tail, count, sem_empty, sem_full,
                 gi, gdata, created, wpc, wdata, enq, deq, out, aborted, llvars>>

\* Line 62, and the i++ of line 162 as enqueue returns.
Enq_Post ==
  /\ ~aborted /\ gpc = "e_post"
  /\ sem_full' = sem_post(sem_full)
  /\ gi' = UAdd(gi, 1, w)
  /\ gpc' = "loop"
  /\ UNCHANGED <<w, argv, start, tasks, head, tail, count, mutex, sem_empty,
                 gdata, created, wpc, wdata, enq, deq, out, aborted, llvars>>

(***************************************************************************)
(* dequeue (lines 65-74), called by worker x.                              *)
(***************************************************************************)
Deq_Wait(x) ==
  /\ ~aborted /\ wpc[x] = "d_wait"
  /\ sem_wait(sem_full)
  /\ sem_full' = sem_full - 1
  /\ wpc' = [wpc EXCEPT ![x] = "d_lock"]
  /\ UNCHANGED <<w, argv, start, tasks, head, tail, count, mutex, sem_empty,
                 mvars, wdata, enq, deq, out, aborted, llvars>>

Deq_Lock(x) ==
  /\ ~aborted /\ wpc[x] = "d_lock"
  /\ pthread_mutex_lock(x)
  /\ wpc' = [wpc EXCEPT ![x] = "d_load"]
  /\ UNCHANGED <<w, argv, start, tasks, head, tail, count, sem_empty, sem_full,
                 mvars, wdata, enq, deq, out, aborted, llvars>>

Deq_Load(x) ==
  /\ ~aborted /\ wpc[x] = "d_load"
  /\ \E d \in SlotValues(head) :
       /\ wdata' = [wdata EXCEPT ![x] = d]
       /\ deq' = Append(deq, [p |-> d.p, by |-> x])
  /\ wpc' = [wpc EXCEPT ![x] = "d_head"]
  /\ UNCHANGED <<w, argv, start, qvars, mvars, enq, out, aborted, llvars>>

Deq_Head(x) ==
  /\ ~aborted /\ wpc[x] = "d_head"
  /\ head' = NextIndex(head)
  /\ wpc' = [wpc EXCEPT ![x] = "d_count"]
  /\ UNCHANGED <<w, argv, start, tasks, tail, count, mutex, sem_empty, sem_full,
                 mvars, wdata, enq, deq, out, aborted, llvars>>

Deq_Count(x) ==
  /\ ~aborted /\ wpc[x] = "d_count"
  /\ count' = count - 1
  /\ wpc' = [wpc EXCEPT ![x] = "d_unlock"]
  /\ UNCHANGED <<w, argv, start, tasks, head, tail, mutex, sem_empty, sem_full,
                 mvars, wdata, enq, deq, out, aborted, llvars>>

Deq_Unlock(x) ==
  /\ ~aborted /\ wpc[x] = "d_unlock"
  /\ pthread_mutex_unlock(x)
  /\ wpc' = [wpc EXCEPT ![x] = "d_post"]
  /\ UNCHANGED <<w, argv, start, tasks, head, tail, count, sem_empty, sem_full,
                 mvars, wdata, enq, deq, out, aborted, llvars>>

Deq_Post(x) ==
  /\ ~aborted /\ wpc[x] = "d_post"
  /\ sem_empty' = sem_post(sem_empty)
  /\ wpc' = [wpc EXCEPT ![x] = "test"]
  /\ UNCHANGED <<w, argv, start, tasks, head, tail, count, mutex, sem_full,
                 mvars, wdata, enq, deq, out, aborted, llvars>>

(***************************************************************************)
(* worker_thread (lines 137-149): the pipeline run and its verdict line.   *)
(* A run that reaches stage 5 uses the dangling t: any of UBOutcomes.      *)
(***************************************************************************)
Work_Test(x) ==
  /\ ~aborted /\ wpc[x] = "test"
  /\ \E u \in UBOutcomes :
       IF lucas_lehmer_aborts(wdata[x].p, w, u)
       THEN /\ aborted' = TRUE
            /\ UNCHANGED <<out, wpc>>
       ELSE /\ out' = out (+) SetToBag({<<wdata[x].p,
                                          lucas_lehmer(wdata[x].p, w, u)>>})
            /\ wpc' = [wpc EXCEPT ![x] = "d_wait"]
            /\ UNCHANGED aborted
  /\ UNCHANGED <<w, argv, start, qvars, mvars, wdata, enq, deq, llvars>>

(***************************************************************************)
(* One call of lucas_lehmer(p), statement by statement (lines 77-134).     *)
(***************************************************************************)
Return(val, line) ==
  /\ res' = val
  /\ retline' = line
  /\ lpc' = "ret"

\* lucas_lehmer without the special case of line 82.
LL_Entry_NoCase ==
  /\ lpc = "entry"
  /\ lpc' = "probab"
  /\ UNCHANGED <<tvars, p, k, tlim, q, V, t, mp, live, res, ub, retline,
                 required>>

\* Line 82.
LL_Entry ==
  /\ lpc = "entry"
  /\ IF p = 2
     THEN Return(1, 82)
     ELSE lpc' = "probab" /\ UNCHANGED <<res, retline>>
  /\ UNCHANGED <<tvars, p, k, tlim, q, V, t, mp, live, ub, required>>

\* Lines 85-89.
LL_Probab ==
  /\ lpc = "probab"
  /\ t' = mpz_ui(p)
  /\ IF ~mpz_probab_prime_p(t')
     THEN Return(0, 88) /\ live' = live
     ELSE /\ live' = live \cup {"t"}
          /\ lpc' = "mersenne"
          /\ UNCHANGED <<res, retline>>
  /\ UNCHANGED <<tvars, p, k, tlim, q, V, mp, ub, required>>

\* Lines 91-93.
LL_Mersenne ==
  /\ lpc = "mersenne"
  /\ mp' = mpz_sub_ui(mpz_setbit(mpz_ui(0), p), 1)
  /\ live' = live \cup {"mp"}
  /\ lpc' = "special"
  /\ UNCHANGED <<tvars, p, k, tlim, q, V, t, res, ub, retline, required>>

\* lucas_lehmer without lines 96-104.
LL_Special_Skipped ==
  /\ lpc = "special"
  /\ lpc' = "tlim"
  /\ UNCHANGED <<tvars, p, k, tlim, q, V, t, mp, live, res, ub, retline,
                 required>>

\* Lines 96-104.
LL_Special ==
  /\ lpc = "special"
  /\ IF p > 3 /\ p % 4 = 3
     THEN /\ t' = mpz_add_ui(mpz_mul_ui(t, 2), 1)
          /\ IF mpz_probab_prime_p(t') /\ mpz_divisible_p(mp, t')
             THEN Return(0, 102) /\ live' = live \ {"mp", "t"}
             ELSE lpc' = "tlim" /\ UNCHANGED <<res, retline, live>>
     ELSE lpc' = "tlim" /\ UNCHANGED <<t, res, retline, live>>
  /\ UNCHANGED <<tvars, p, k, tlim, q, V, mp, ub, required>>

\* Line 107 and the k = 1 of line 108.  A zero divisor 2*p raises SIGFPE.
LL_Tlim ==
  /\ lpc = "tlim"
  /\ IF TwoP(p, w) = 0
     THEN lpc' = "sigfpe" /\ UNCHANGED <<tlim, k>>
     ELSE /\ tlim' = TrialLimit(p, w)
          /\ k' = 1
          /\ lpc' = "trial"
  /\ UNCHANGED <<tvars, p, q, V, t, mp, live, res, ub, retline, required>>

\* Lines 108-115: one test of the loop condition, and one turn if it holds.
LL_Trial ==
  /\ lpc = "trial"
  /\ IF k < tlim
     THEN /\ q' = TrialQ(p, k, w)
          /\ IF TrialDivides(q', mp)
             THEN Return(0, 113) /\ live' = live \ {"mp", "t"} /\ k' = k
             ELSE /\ k' = UAdd(k, 1, w)
                  /\ UNCHANGED <<lpc, res, retline, live>>
     ELSE lpc' = "log" /\ UNCHANGED <<q, k, res, retline, live>>
  /\ UNCHANGED <<tvars, p, tlim, V, t, mp, ub, required>>

\* Lines 117-122: mpz_clear(t); the "Lucas-Lehmer is required" line;
\* V = 4; k = 3.
LL_Log ==
  /\ lpc = "log"
  /\ live' = (live \ {"t"}) \cup {"V"}
  /\ required' = TRUE
  /\ V' = mpz_ui(4)
  /\ k' = 3
  /\ lpc' = "loop"
  /\ UNCHANGED <<tvars, p, tlim, q, t, mp, res, ub, retline>>

\* Lines 122-127: the loop condition holds; one turn up to the reduction.
\* t is written (line 125) and read (line 127) although it is not live:
\* the outcome is chosen at the first use and kept.
LL_Body ==
  /\ lpc = "loop"
  /\ k <= p
  /\ \E u \in (IF "t" \in live THEN {"asif"}
               ELSE IF ub = "none" THEN UBOutcomes ELSE {ub}) :
       /\ ub' = (IF "t" \in live THEN ub ELSE u)
       /\ IF u = "abort"
          THEN lpc' = "abort" /\ UNCHANGED <<V, t>>
          ELSE /\ V' = LLBody(V, p, u)
               /\ t' = IF u = "alias" THEN V'
                       ELSE mpz_tdiv_r_2exp(LLSquare(V), p)
               /\ lpc' = "reduce"
  /\ UNCHANGED <<tvars, p, k, tlim, q, mp, live, res, retline, required>>

\* Line 128 and the k++ of line 122.
LL_Reduce ==
  /\ lpc = "reduce"
  /\ IF mpz_cmp(V, mp) >= 0
     THEN V' = mpz_sub(V, mp) /\ UNCHANGED <<k, lpc>>
     ELSE k' = UAdd(k, 1, w) /\ lpc' = "loop" /\ UNCHANGED V
  /\ UNCHANGED <<tvars, p, tlim, q, t, mp, live, res, ub, retline, required>>

\* Lines 130-133: the loop condition fails.
LL_End ==
  /\ lpc = "loop"
  /\ ~(k <= p)
  /\ Return(IF mpz_sgn(V) = 0 THEN 1 ELSE 0, 133)
  /\ live' = live \ {"mp", "V"}
  /\ UNCHANGED <<tvars, p, k, tlim, q, V, t, mp, ub, required>>

(***************************************************************************)
(* The specifications.                                                     *)
(***************************************************************************)
QueueInit ==
  LET qi == init_queue(max_tasks)
  IN  /\ tasks = <<>>
      /\ head = qi.head /\ tail = qi.tail /\ count = qi.count
      /\ sem_empty = qi.sem_empty /\ sem_full = qi.sem_full
      /\ mutex = {}

ThreadsInit ==
  /\ QueueInit
  /\ gi = start
  /\ gdata = [p |-> 0]
  /\ created = 0
  /\ wpc = [x \in Workers |-> "idle"]
  /\ wdata = [x \in Workers |-> [p |-> 0]]
  /\ enq = <<>> /\ deq = <<>>
  /\ out = EmptyBag
  /\ aborted = FALSE

LLInit ==
  /\ k = 0 /\ tlim = 0 /\ q = 0
  /\ V = mpz_ui(0) /\ t = mpz_ui(0) /\ mp = mpz_ui(0)
  /\ live = {}
  /\ res = 0 /\ ub = "none" /\ retline = 0 /\ required = FALSE

\* main has evaluated line 152 and called init_queue; no worker exists yet.
Init ==
  /\ w \in Widths
  /\ argv \in ArgVs(w)
  /\ start = StartOf(argv, w)
  /\ gpc = "create"
  /\ ThreadsInit
  /\ p = 0 /\ lpc = "off"
  /\ LLInit

Next ==
  \/ Main_Create \/ Main_Loop
  \/ Enq_Wait \/ Enq_Lock \/ Enq_Store \/ Enq_Tail \/ Enq_Count
  \/ Enq_Unlock \/ Enq_Post
  \/ \E x \in Workers :
       \/ Deq_Wait(x) \/ Deq_Lock(x) \/ Deq_Load(x) \/ Deq_Head(x)
       \/ Deq_Count(x) \/ Deq_Unlock(x) \/ Deq_Post(x)
       \/ Work_Test(x)

Spec == Init /\ [][Next]_vars

\* lucas_lehmer is entered with an exponent p; no thread runs.
InitLL ==
  /\ w \in Widths
  /\ argv = ArgAbsent
  /\ start = 1
  /\ gpc = "off"
  /\ ThreadsInit
  /\ p \in 0..(IF MaxP < ULONG_MAX(w) THEN MaxP ELSE ULONG_MAX(w))
  /\ lpc = "entry"
  /\ LLInit

NextLL ==
  \/ LL_Entry \/ LL_Probab \/ LL_Mersenne \/ LL_Special \/ LL_Tlim
  \/ LL_Trial \/ LL_Log \/ LL_Body \/ LL_Reduce \/ LL_End

SpecLL == InitLL /\ [][NextLL]_vars

\* The trial-division stage on its own, as a test of lines 106-115 enters
\* it: the exponent has passed line 86, t = p and mp = 2^p - 1 are
\* initialised (lines 85-93), and lines 96-104 have not run.
InitStage4 ==
  /\ w \in Widths
  /\ argv = ArgAbsent
  /\ start = 1
  /\ gpc = "off"
  /\ ThreadsInit
  /\ p \in {e \in 3..(IF MaxP < ULONG_MAX(w) THEN MaxP ELSE ULONG_MAX(w)) :
             ExponentIsPrime(e)}
  /\ lpc = "tlim"
  /\ k = 0 /\ tlim = 0 /\ q = 0
  /\ V = mpz_ui(0) /\ t = mpz_ui(p) /\ mp = Mersenne(p)
  /\ live = {"t", "mp"}
  /\ res = 0 /\ ub = "none" /\ retline = 0 /\ required = FALSE

NextStage4 ==
  \/ LL_Tlim \/ LL_Trial \/ LL_Log \/ LL_Body \/ LL_Reduce \/ LL_End

SpecStage4 == InitStage4 /\ [][NextStage4]_vars

(***************************************************************************)
(* Auxiliary notions for the queue properties.                             *)
(***************************************************************************)
IsPrefix(a, b) == Len(a) <= Len(b) /\ \A i \in 1..Len(a) : a[i] = b[i]

\* The exponents loaded from the buffer, in order.
DeqVals == [i \in 1..Len(deq) |-> deq[i].p]

\* Positions of main inside enqueue's critical section (lines 58-61), and
\* after its store.
EnqCritical == {"e_store", "e_tail", "e_count", "e_unlock"}
EnqStored == {"e_tail", "e_count", "e_unlock", "e_post"}

\* Positions of a worker inside dequeue's critical section (lines 68-71),
\* and after its load.
DeqCritical == {"d_load", "d_head", "d_count", "d_unlock"}
DeqLoaded == {"d_head", "d_count", "d_unlock", "d_post"}

\* Calls of enqueue / dequeue that have completed (returned).
EnqCompleted == Len(enq) - (IF gpc \in EnqStored THEN 1 ELSE 0)
DeqCompleted == Len(deq) - Cardinality({x \in Workers : wpc[x] \in DeqLoaded})

InCritical ==
  (IF gpc \in EnqCritical THEN {Main} ELSE {})
  \cup {x \in Workers : wpc[x] \in DeqCritical}

(***************************************************************************)
(* C1: every value a dequeue returns was enqueued before, every enqueued   *)
(* value is returned at most once and to one caller, and the values leave  *)
(* the buffer in the order they entered it: the sequence of loaded values  *)
(* is a prefix of the sequence of stored values, no exponent occurs twice  *)
(* in it, and the value a worker holds after its load is the one its own   *)
(* latest load took.                                                       *)
(***************************************************************************)
C1_FifoExactlyOnce ==
  /\ IsPrefix(DeqVals, enq)
  /\ \A i, j \in 1..Len(deq) : i # j => deq[i].p # deq[j].p
  /\ \A x \in Workers :
       wpc[x] \in DeqLoaded \cup {"test"} =>
         \E i \in 1..Len(deq) :
           /\ deq[i].by = x
           /\ deq[i].p = wdata[x].p
           /\ \A j \in (i + 1)..Len(deq) : deq[j].by # x

\* Both workers have been served, and the buffer has wrapped around.
C1_Witness ==
  /\ Len(deq) > Cap
  /\ \E i, j \in 1..Len(deq) : deq[i].by # deq[j].by

(***************************************************************************)
(* C2: back-pressure.  While main waits at sem_empty with Cap values       *)
(* stored whose slot no completed dequeue has released, no step takes it   *)
(* past the wait; while a worker waits at sem_full and every completed     *)
(* enqueue's value has been loaded, no step takes it past the wait.        *)
(***************************************************************************)
C2_BackPressure ==
  [][ /\ (gpc = "e_wait" /\ Len(enq) - DeqCompleted >= Cap) => gpc' = "e_wait"
      /\ \A x \in Workers :
           (wpc[x] = "d_wait" /\ EnqCompleted - Len(deq) <= 0)
             => wpc'[x] = "d_wait" ]_vars

\* main is blocked on a full buffer that has been filled more than once.
C2_Witness ==
  /\ gpc = "e_wait"
  /\ sem_empty = 0
  /\ Len(enq) - DeqCompleted = Cap
  /\ Len(deq) > 0

(***************************************************************************)
(* C3: 0 <= count <= C, head and tail are indices of the buffer, and at    *)
(* most C candidates have been stored whose dequeue has not completed.     *)
(***************************************************************************)
C3_QueueBounds ==
  /\ count \in 0..Cap
  /\ head \in 0..(Cap - 1)
  /\ tail \in 0..(Cap - 1)
  /\ Len(enq) - Len(deq) <= Cap
  /\ Len(enq) - DeqCompleted <= Cap

\* The buffer is full after both indices have wrapped around.
C3_Witness ==
  /\ count = Cap
  /\ Len(enq) - DeqCompleted = Cap
  /\ Len(deq) >= Cap

(***************************************************************************)
(* C5: a thread that is at a statement reading or writing head, tail,      *)
(* count or a slot holds the mutex, and at most one thread holds it: no    *)
(* two threads are in the critical sections together.                      *)
(***************************************************************************)
C5_MutualExclusion ==
  /\ Cardinality(mutex) <= 1
  /\ InCritical \subseteq mutex
  /\ Cardinality(InCritical) <= 1

\* A worker is inside dequeue's critical section while main waits for the
\* mutex.
C5_Witness ==
  /\ gpc = "e_lock"
  /\ \E x \in Workers : wpc[x] = "d_head" /\ mutex = {x}

(***************************************************************************)
(* C6: when dequeue is about to read tasks[head], that slot has been       *)
(* written and holds the oldest stored value not yet loaded.               *)
(***************************************************************************)
C6_ReadsWrittenSlot ==
  \A x \in Workers :
    wpc[x] = "d_load" =>
      /\ head \in DOMAIN tasks
      /\ Len(deq) < Len(enq)
      /\ tasks[head].p = enq[Len(deq) + 1]
      /\ gpc \notin EnqCritical

\* A read of a slot that has been written for the second time.
C6_Witness ==
  \E x \in Workers :
    /\ wpc[x] = "d_load"
    /\ Len(deq) >= Cap
    /\ head \in DOMAIN tasks

(***************************************************************************)
(* C4: the pool's verdicts on a finite prefix of exponents are those of a  *)
(* sequential run of the pipeline, one per exponent: no verdict is logged  *)
(* twice, each is the pipeline's value for an exponent that was enqueued,  *)
(* and when the run is over every enqueued exponent has its verdict.       *)
(***************************************************************************)
\* The verdict of the pipeline as written, t behaving as a live integer.
Sequential(e) == lucas_lehmer(e, w, "asif")

\* No thread takes another step: the process was aborted, or main has
\* enqueued the whole prefix and every worker is back at an empty queue.
Finished ==
  \/ aborted
  \/ /\ gpc = "loop" /\ Len(enq) = MaxItems /\ Len(deq) = MaxItems
     /\ \A x \in Workers : wpc[x] = "d_wait"

C4_VerdictsAsSequential ==
  /\ \A e \in BagToSet(out) :
       /\ CopiesIn(e, out) = 1
       /\ e[2] = Sequential(e[1])
       /\ \E i \in 1..Len(enq) : enq[i] = e[1]
  /\ Finished =>
       BagToSet(out) = {<<enq[i], Sequential(enq[i])>> : i \in 1..Len(enq)}

\* What does hold: as long as no run of the pipeline aborts the process,
\* the verdicts logged are the sequential ones, one per exponent.
C4_UnlessAborted ==
  /\ \A e \in BagToSet(out) :
       /\ CopiesIn(e, out) = 1
       /\ e[2] = Sequential(e[1])
       /\ \E i \in 1..Len(enq) : enq[i] = e[1]
  /\ (Finished /\ ~aborted) =>
       BagToSet(out) = {<<enq[i], Sequential(enq[i])>> : i \in 1..Len(enq)}

(***************************************************************************)
(* C7: lucas_lehmer(p) returns 1 for the Mersenne exponents 2, 3, 5, 7,    *)
(* 13, 17, 19, 31, 61, 89, 107, 127 and 0 for every other p up to MaxP:    *)
(* it returns 1 exactly when 2^p - 1 is prime.                             *)
(***************************************************************************)
KnownMersenneExponents == {2, 3, 5, 7, 13, 17, 19, 31, 61, 89, 107, 127}

\* 2^e - 1 is prime: by trial division while 2^e - 1 is small, from the
\* table of Mersenne exponents beyond.
MersenneIsPrime(e) ==
  IF e <= 20
  THEN LET n == 2^e - 1
       IN  n >= 2 /\ \A d \in 2..(2^((e + 1) \div 2)) : d * d > n \/ n % d # 0
  ELSE e \in KnownMersenneExponents

CallEnded == lpc \in {"ret", "abort", "sigfpe"}

C7_VerdictIsPrimality ==
  lpc = "ret" => res = (IF MersenneIsPrime(p) THEN 1 ELSE 0)

\* What does hold: when the dangling t behaves as a live integer, the value
\* returned is the primality of 2^p - 1.
C7_WhenTBehaves ==
  (lpc = "ret" /\ ub \in {"none", "asif"})
    => res = (IF MersenneIsPrime(p) THEN 1 ELSE 0)

(***************************************************************************)
(* C8: lucas_lehmer raises no error for any unsigned p: the call never     *)
(* ends in a division by zero at line 107 nor in an abort, and ends with   *)
(* a result of 0 or 1.                                                     *)
(***************************************************************************)
C8_NoError ==
  /\ lpc \notin {"abort", "sigfpe"}
  /\ lpc = "ret" => res \in {0, 1}

\* What does hold: the divisor 2*p of line 107 is never zero, and the three
\* loops finish: each turn of the trial-division loop and of the
\* Lucas-Lehmer loop raises k by one without wrap-around towards its limit,
\* and each turn of the subtraction loop lowers a non-negative V.
C8_DivisorNonZero == lpc # "sigfpe" /\ (lpc = "tlim" => TwoP(p, w) # 0)

C8_LoopsProgress ==
  [][ /\ (lpc = "trial" /\ lpc' = "trial") => (k' = k + 1 /\ k' <= tlim)
      /\ (lpc = "reduce" /\ lpc' = "reduce")
           => (mpz_cmp(V', V) < 0 /\ mpz_sgn(V') >= 0)
      /\ (lpc = "reduce" /\ lpc' = "loop") => (k' = k + 1 /\ k <= p) ]_vars

(***************************************************************************)
(* C9: the tlim of line 107 is min(p/2, MAX/(2p)) over the true integers,  *)
(* for every prime p that reaches the line, also when 2p > MAX.            *)
(***************************************************************************)
TrueTrialLimit(e, wd) ==
  LET a == e \div 2
      b == ULONG_MAX(wd) \div (2 * e)
  IN  IF a > b THEN b ELSE a

C9_TlimIsTrueMin == lpc = "trial" => tlim = TrueTrialLimit(p, w)

\* What does hold: the two agree as long as 2p fits the word.
C9_WhenTwoPFits ==
  (lpc = "trial" /\ 2 * p <= ULONG_MAX(w)) => tlim = TrueTrialLimit(p, w)

(***************************************************************************)
(* C10 as stated: every candidate main passes to enqueue is >= 2.          *)
(***************************************************************************)
EnqPositions ==
  {"e_wait", "e_lock", "e_store", "e_tail", "e_count", "e_unlock", "e_post"}

ExpectedStart ==
  IF argv.kind = "absent" THEN 1
  ELSE IF argv.kind = "junk" THEN 0
  ELSE argv.val

CandidateOk(c, i) ==
  /\ c \in 0..ULONG_MAX(w)
  /\ c = (ExpectedStart + i - 1) % (2^w)
  /\ (ExpectedStart >= 2 /\ ExpectedStart + i - 1 <= ULONG_MAX(w)) => c >= 2

C11_ConsecutiveCandidates ==
  /\ Len(enq) >= 1 => enq[1] = start
  /\ \A i \in 2..Len(enq) : enq[i] = enq[i - 1] + 1
  /\ \A i, j \in 1..Len(enq) : i # j => enq[i] # enq[j]

\* What does hold: each value is the unsigned long successor of the one
\* before it, which is 0 after ULONG_MAX.
C11_SuccessorModulo ==
  /\ Len(enq) >= 1 => enq[1] = start
  /\ \A i \in 2..Len(enq) : enq[i] = (enq[i - 1] + 1) % (2^w)
  /\ gpc \in EnqPositions =>
       gdata.p = (IF EnqCompleted = 0 THEN start
                  ELSE (enq[EnqCompleted] + 1) % (2^w))

(***************************************************************************)
(* Number theory over the naturals, independent of the GMP operators.      *)
(***************************************************************************)
IsPrimeNat(n) == n >= 2 /\ \A d \in 2..(n - 1) : n % d # 0

\* 2^e modulo m, by squaring (m below 2^15, so that no product exceeds
\* the checker's integers).
RECURSIVE PowMod2(_, _)
PowMod2(e, m) ==
  IF e = 0 THEN 1 % m
  ELSE LET h == PowMod2(e \div 2, m)
       IN  (((h * h) % m) * (IF e % 2 = 1 THEN 2 ELSE 1)) % m

\* d divides 2^e - 1.
DividesMersenne(d, e) == PowMod2(e, d) = 1 % d

(***************************************************************************)
(* C12: for every prime p > 3 with p = 3 (mod 4) for which 2p+1 is prime,  *)
(* 2p+1 divides 2^p - 1 and lucas_lehmer(p) returns 0 at stage 3 (line     *)
(* 102): the call never reaches the trial-division loop nor the            *)
(* Lucas-Lehmer stage.                                                     *)
(***************************************************************************)
SophieGermain3Mod4(e) ==
  e > 3 /\ e % 4 = 3 /\ IsPrimeNat(e) /\ IsPrimeNat(2 * e + 1)

AfterSpecial == {"tlim", "trial", "log", "loop", "reduce", "abort", "sigfpe"}

C12_SpecialFactorRejects ==
  SophieGermain3Mod4(p) =>
    /\ DividesMersenne(2 * p + 1, p)
    /\ lpc \notin AfterSpecial
    /\ ~required
    /\ lpc = "ret" => (res = 0 /\ retline = 102 /\ t = mpz_ui(2 * p + 1))

\* lucas_lehmer(11) has returned from stage 3, with t = 23.
C12_Witness ==
  /\ p = 11 /\ lpc = "ret" /\ retline = 102 /\ res = 0
  /\ t = mpz_ui(23)

(***************************************************************************)
(* C13: stage 4 alone.  The trial-division loop, entered for p = 11 and    *)
(* for p = 23 without stage 3 having run, finds the divisor q = 2p+1 (23,  *)
(* 47) in its first turn, k = 1, inside the bound tlim; q passes the       *)
(* filters on q mod 8, 3, 5 and 7, the call returns 0 at line 113 and the  *)
(* Lucas-Lehmer stage is not reached.  (unsigned long has at least 32      *)
(* bits; in the 6-bit word of the model 11 and 23 are as close to          *)
(* ULONG_MAX as exponents near 2^30 are to a 32-bit one.)                  *)
(***************************************************************************)
C13_TrialAloneRejects ==
  (p \in {11, 23} /\ w >= 16) =>
    /\ lpc \notin {"log", "loop", "reduce", "abort", "sigfpe"}
    /\ ~required
    /\ lpc = "trial" => (k = 1 /\ k < tlim)
    /\ lpc = "ret" =>
         /\ res = 0 /\ retline = 113
         /\ k = 1 /\ k < tlim
         /\ q = 2 * p + 1
         /\ q % 8 \in {1, 7} /\ q % 3 # 0 /\ q % 5 # 0 /\ q % 7 # 0
         /\ DividesMersenne(q, p)

\* The loop entered for p = 23 has returned with the divisor 47.
C13_Witness ==
  /\ p = 23 /\ w >= 16 /\ lpc = "ret" /\ retline = 113
  /\ q = 47 /\ k = 1 /\ res = 0

(***************************************************************************)
(* C14: the stages run in order and short-circuit.  The call is past line  *)
(* 89 only if p # 2 and p is prime, past line 104 only if stage 3 did not  *)
(* reject p, in turn k of the trial loop only if no earlier turn found a   *)
(* divisor, and in the Lucas-Lehmer stage (with its line "Lucas-Lehmer is  *)
(* required" logged) only if no turn did; a call that returned from an     *)
(* earlier stage has not entered a later one.                              *)
(***************************************************************************)
PastExponentFilter == {"mersenne", "special"} \cup AfterSpecial

InLucasLehmerStage ==
  \/ lpc \in {"loop", "reduce", "abort"}
  \/ required
  \/ (lpc = "ret" /\ retline = 133)

\* q passes the filters of line 110 and divides 2^e - 1.
QHit(d, e) ==
  /\ d % 8 \in {1, 7} /\ d % 3 # 0 /\ d % 5 # 0 /\ d % 7 # 0
  /\ DividesMersenne(d, e)

Stage3Rejects(e) == SophieGermain3Mod4(e) /\ DividesMersenne(2 * e + 1, e)

C14_StagesShortCircuit ==
  /\ lpc \in PastExponentFilter => (p # 2 /\ IsPrimeNat(p))
  /\ lpc \in AfterSpecial => ~Stage3Rejects(p)
  /\ lpc = "trial" => \A j \in 1..(k - 1) : ~QHit(TrialQ(p, j, w), p)
  /\ InLucasLehmerStage =>
       /\ p # 2 /\ IsPrimeNat(p) /\ ~Stage3Rejects(p)
       /\ \A j \in 1..(tlim - 1) : ~QHit(TrialQ(p, j, w), p)
  /\ (lpc = "ret" /\ retline # 133) =>
       (~required /\ "V" \notin live /\ ub = "none")
  /\ (lpc = "ret" /\ retline = 82) => (p = 2 /\ live = {} /\ k = 0)
  /\ (lpc = "ret" /\ retline = 88) => (~IsPrimeNat(p) /\ live = {} /\ k = 0)
  /\ (lpc = "ret" /\ retline = 102) => (Stage3Rejects(p) /\ k = 0)
  /\ (lpc = "ret" /\ retline = 113) => (k < tlim /\ QHit(q, p))

\* The Lucas-Lehmer stage has been entered for p = 13 after a trial loop
\* of several turns.
C14_Witness ==
  /\ p = 13 /\ w >= 16 /\ required /\ lpc = "loop" /\ tlim > 2

(***************************************************************************)
(* The canonical residue of x modulo 2^e - 1, for -(2^e - 1) <= x < 2^(2e),*)
(* by long division: subtract (2^e - 1) * 2^j for j = e down to 0.         *)
(***************************************************************************)
RECURSIVE ResidueFrom(_, _, _)
ResidueFrom(x, e, j) ==
  IF j >= 0 /\ x.mag \in Seq(Nat)
  THEN LET s == mpz_sub(mpz_setbit(mpz_ui(0), e + j),
                        mpz_setbit(mpz_ui(0), j))
       IN  ResidueFrom(IF mpz_cmp(x, s) >= 0 THEN mpz_sub(x, s) ELSE x,
                       e, j - 1)
  ELSE x

CanonicalResidue(x, e) ==
  IF mpz_sgn(x) < 0 THEN mpz_add(x, Mersenne(e)) ELSE ResidueFrom(x, e, e)

(***************************************************************************)
(* C15: in the Lucas-Lehmer stage the loop runs exactly p - 2 times from   *)
(* V = 4 (k = 3 .. p), and each turn takes V to the canonical residue of   *)
(* V^2 - 2 modulo 2^p - 1: lines 123-127 yield a non-negative V congruent  *)
(* to V_old^2 - 2, every subtraction of line 128 takes off mp, and the     *)
(* turn ends with 0 <= V < 2^p - 1.                                        *)
(***************************************************************************)
LLTurnIsCanonical ==
  /\ (lpc = "log" /\ lpc' = "loop") => (V' = mpz_ui(4) /\ k' = 3)
  /\ (lpc = "loop" /\ k <= p) =>
       /\ lpc' = "reduce"
       /\ mpz_sgn(V') >= 0
       /\ CanonicalResidue(V', p) = CanonicalResidue(LLSquare(V), p)
  /\ (lpc = "reduce" /\ lpc' = "reduce") => V' = mpz_sub(V, mp)
  /\ (lpc = "reduce" /\ lpc' = "loop") =>
       /\ mpz_sgn(V') >= 0 /\ mpz_cmp(V', mp) < 0
       /\ V' = CanonicalResidue(V', p)
       /\ k' = k + 1
  /\ (lpc = "loop" /\ lpc' = "ret") => k = p + 1

C15_CanonicalResidue == [][LLTurnIsCanonical]_vars

\* What does hold: the same, as long as the dangling t behaves as a live
\* integer.
C15_WhenTBehaves == [][ub' \in {"none", "asif"} => LLTurnIsCanonical]_vars

(***************************************************************************)
(* C16: for every prime p and every k the trial-division loop iterates,    *)
(* the unsigned long q of line 109 is the true integer 2*p*k + 1, which is *)
(* at most ULONG_MAX: nothing wraps around.                                *)
(***************************************************************************)
C16_QNoWrap ==
  /\ (lpc = "trial" /\ k < tlim) => 2 * p * k + 1 <= ULONG_MAX(w)
  /\ (lpc = "trial" /\ k > 1) => q = 2 * p * (k - 1) + 1
  /\ (lpc = "ret" /\ retline = 113) => q = 2 * p * k + 1

\* What does hold: nothing wraps as long as 2p fits the word.
C16_WhenTwoPFits ==
  2 * p <= ULONG_MAX(w) =>
    /\ (lpc = "trial" /\ k < tlim) => 2 * p * k + 1 <= ULONG_MAX(w)
    /\ (lpc = "trial" /\ k > 1) => q = 2 * p * (k - 1) + 1
    /\ (lpc = "ret" /\ retline = 113) => q = 2 * p * k + 1

(***************************************************************************)
(* C17: the cheap filters never reject a Mersenne prime.  For every prime  *)
(* p >= 3, the divisor stage 3 tests (t = 2p+1, for p > 3 with p = 3 mod   *)
(* 4) and every q stage 4 tests lie strictly between 1 and 2^p - 1, so a   *)
(* return of 0 at line 102 or line 113 exhibits a proper factor: 2^p - 1   *)
(* is composite there.                                                     *)
(***************************************************************************)
ProperDivisorCandidate(d) ==
  mpz_cmp(d, mpz_ui(1)) > 0 /\ mpz_cmp(d, mp) < 0

C17_FiltersKeepMersennePrimes ==
  (IsPrimeNat(p) /\ p >= 3) =>
    /\ (p > 3 /\ p % 4 = 3
           /\ (lpc \in {"tlim", "trial", "log"}
                 \/ (lpc = "ret" /\ retline = 102)))
         => (t = mpz_ui(2 * p + 1) /\ ProperDivisorCandidate(t))
    /\ ((lpc = "trial" /\ k > 1) \/ (lpc = "ret" /\ retline = 113))
         => ProperDivisorCandidate(mpz_ui(q))
    /\ (lpc = "ret" /\ retline = 102)
         => (res = 0 /\ DividesMersenne(2 * p + 1, p) /\ ~MersenneIsPrime(p))
    /\ (lpc = "ret" /\ retline = 113)
         => (res = 0 /\ DividesMersenne(q, p) /\ ~MersenneIsPrime(p))
    /\ MersenneIsPrime(p) => (lpc = "ret" => retline = 133)

\* Stage 4 has rejected p = 29 with the factor 233 of 2^29 - 1.
C17_Witness ==
  p = 29 /\ lpc = "ret" /\ retline = 113 /\ q = 233 /\ k = 4 /\ res = 0

(***************************************************************************)
(* C19: the semaphores and the bookkeeping fields agree in every state:    *)
(* sem_full <= count <= C - sem_empty, sem_empty + sem_full <= C,          *)
(* sem_empty + sem_full plus the number of threads between their sem_wait  *)
(* and their sem_post is C, and (tail - head) mod C = count mod C while no *)
(* thread holds the mutex.                                                 *)
(***************************************************************************)
\* The threads that have passed their sem_wait and not yet done their
\* sem_post.
BetweenWaitAndPost ==
  (IF gpc \in {"e_lock", "e_store", "e_tail", "e_count", "e_unlock", "e_post"}
   THEN {Main} ELSE {})
  \cup {x \in Workers :
          wpc[x] \in {"d_lock", "d_load", "d_head", "d_count", "d_unlock",
                      "d_post"}}

C19_SemaphoresAgree ==
  /\ sem_empty >= 0 /\ sem_full >= 0
  /\ sem_full <= count
  /\ count <= Cap - sem_empty
  /\ sem_empty + sem_full <= Cap
  /\ sem_empty + sem_full + Cardinality(BetweenWaitAndPost) = Cap
  /\ mutex = {} => (tail - head) % Cap = count % Cap

\* The mutex is free with the buffer full after a wrap-around, while main
\* and a worker are both between their sem_wait and their sem_post.
C19_Witness ==
  /\ mutex = {}
  /\ Len(deq) >= Cap
  /\ Cardinality(BetweenWaitAndPost) = 2
  /\ Main \in BetweenWaitAndPost
  /\ tail = head /\ count = Cap

(***************************************************************************)
(* C18: progress.  No state has every thread blocked; every enqueue call   *)
(* that starts completes, and every enqueued candidate is dequeued by a    *)
(* worker and gets its verdict.  Every step of the threads advances a      *)
(* bounded measure (C18_EveryStepAdvances), so a fairly scheduled run      *)
(* comes to a state where no thread can take a step, and the claim is that *)
(* no thread is then inside enqueue and every candidate stored has been    *)
(* loaded and has its verdict line.                                        *)
(***************************************************************************)
MainBlocked ==
  \/ (gpc = "e_wait" /\ ~sem_wait(sem_empty))
  \/ (gpc = "e_lock" /\ mutex # {})

WorkerBlocked(x) ==
  \/ (wpc[x] = "d_wait" /\ ~sem_wait(sem_full))
  \/ (wpc[x] = "d_lock" /\ mutex # {})

EveryThreadBlocked == MainBlocked /\ \A x \in Workers : WorkerBlocked(x)

HasVerdict(e) == \E v \in BagToSet(out) : v[1] = e

AllServed ==
  /\ gpc \notin EnqPositions
  /\ Len(deq) = Len(enq)
  /\ \A i \in 1..Len(enq) : HasVerdict(enq[i])

\* A thread can take a step: the process runs, the thread exists and is
\* not blocked (main is stopped once MaxItems candidates are stored).
MainCanStep ==
  /\ ~aborted
  /\ ~MainBlocked
  /\ gpc = "loop" => Len(enq) < MaxItems

WorkerCanStep(x) == ~aborted /\ wpc[x] # "idle" /\ ~WorkerBlocked(x)

NoThreadCanStep == ~MainCanStep /\ \A x \in Workers : ~WorkerCanStep(x)

C18_UnlessAborted ==
  /\ ~EveryThreadBlocked
  /\ (~aborted /\ NoThreadCanStep) => AllServed

\* The run has come to its end with every candidate served.
C18_ServedAtEnd ==
  ~aborted /\ NoThreadCanStep /\ AllServed /\ Len(enq) = MaxItems

\* The position of a thread in its cycle, and the measure every step raises.
MainPos ==
  CASE gpc = "e_wait" -> 1 [] gpc = "e_lock" -> 2 [] gpc = "e_store" -> 3
    [] gpc = "e_tail" -> 4 - 8 [] gpc = "e_count" -> 5 - 8
    [] gpc = "e_unlock" -> 6 - 8 [] gpc = "e_post" -> 7 - 8
    [] OTHER -> 0

WorkerPos(x) ==
  CASE wpc[x] = "d_lock" -> 1 [] wpc[x] = "d_load" -> 2
    [] wpc[x] = "d_head" -> 3 - 8 [] wpc[x] = "d_count" -> 4 - 8
    [] wpc[x] = "d_unlock" -> 5 - 8 [] wpc[x] = "d_post" -> 6 - 8
    [] wpc[x] = "test" -> 7 - 8
    [] OTHER -> 0

RECURSIVE SumOver(_, _)
SumOver(f, S) ==
  IF S = {} THEN 0
  ELSE LET x == CHOOSE y \in S : TRUE IN f[x] + SumOver(f, S \ {x})

Measure ==
  created + 8 * Len(enq) + MainPos + 8 * Len(deq)
  + SumOver([x \in Workers |-> WorkerPos(x)], Workers)
  + (IF aborted THEN 8 ELSE 0)

C18_EveryStepAdvances == [][Measure' > Measure]_vars

\* No step is taken from a state where no thread can step.
C18_StoppedIsFinal == [][~NoThreadCanStep]_vars

====
